---- MODULE Spec2Model ----
(***************************************************************************)
(* Model of scripts/poly_wrapper.py: one CLI invocation of the wrapper.    *)
(*                                                                         *)
(* A behaviour is one process run: Init fixes the command line, the        *)
(* process environment and the exchange's off-chain balance/allowance      *)
(* view; one action per subcommand runs the whole handler (get_client      *)
(* included) and leaves the calls issued to the exchange client, the lines *)
(* written to standard error, the payload printed to standard output and   *)
(* the exit status.                                                        *)
(*                                                                         *)
(* Units.  Money and prices are counted in quarter dollars (MinNotional    *)
(* units make one USD), sizes in whole shares before rounding and in       *)
(* 10^-SizeDecimals shares after.  cap / price is kept as an exact         *)
(* fraction.                                                               *)
(*                                                                         *)
(* Floats.  The handler computes with Python floats.  A decimal operand    *)
(* such as 0.55 is not a binary fraction, so a quotient or product whose   *)
(* exact value equals the number it is compared with can come out one unit *)
(* in the last place off it (8.25 / 0.55 is 14.999999999999998, 5 * 0.021  *)
(* is 0.10500000000000001); operands that differ exactly differ by far     *)
(* more than that.  The grid of the model abstracts the decimal expansions *)
(* away, so the direction of each rounding is an input of the run, kept in *)
(* `rounding`, and is drawn only where a comparison is an exact tie.       *)
(***************************************************************************)
EXTENDS Integers, Naturals, Sequences, FiniteSets, TLC

VARIABLES
    argv,         \* parsed command line: [command, ...arguments]
    environ,      \* process environment: [key, signer]
    ledger,       \* the exchange's off-chain balance/allowance view
    book,         \* the order-book object the process holds (after use)
    pc,           \* "start" | "exited"
    calls,        \* calls issued to the exchange client / RPC, in order
    stderr,       \* lines written to standard error, in order
    stdout,       \* payloads printed to standard output, in order
    exit_status,  \* process exit status once pc = "exited"
    rounding      \* float rounding of this run: sign of the error of each result

vars ==
    <<argv, environ, ledger, book, pc, calls, stderr, stdout, exit_status, rounding>>

----------------------------------------------------------------------------
(* Bounds of the model *)

MaxPrice == 3        \* prices 1..MaxPrice quarter dollars
MaxCap == 5          \* max_usd up to MaxCap quarter dollars
MaxMinSize == 1      \* book.min_order_size in 0..MaxMinSize shares
MaxLevels == 3       \* levels of a quoted book, both sides together
MaxAsks == 1         \* ask levels of a book an order is sized against
MaxSize == 2         \* size argument of buy and sell, in shares
MaxAllow == 1        \* off-chain / on-chain allowance values
MaxBalance == 1      \* off-chain collateral balance values

(* Program constants *)

MinNotional == 4     \* the $1 marketable floor, in quarter dollars
SizeDecimals == 6    \* round(size, 6)

Micro == 10 ^ SizeDecimals

----------------------------------------------------------------------------
(* Command-line strings.  A string argument is absent (None), empty, a     *)
(* text that float() rejects, or a decimal number.                         *)

Absent == [t |-> "absent", v |-> 0]
Empty == [t |-> "empty", v |-> 0]
Text == [t |-> "text", v |-> 0]
Num(n) == [t |-> "num", v |-> n]

\* Python truthiness of an optional string argument
Truthy(s) == s.t \notin {"absent", "empty"}

\* float(s) succeeds
IsFloat(s) == s.t = "num"

TOKEN == "T1"

----------------------------------------------------------------------------
(* Addresses *)

LowerChar(c) == IF c = "A" THEN "a" ELSE IF c = "B" THEN "b" ELSE c
Lower(s) == [i \in DOMAIN s |-> LowerChar(s[i])]

KeyAddress == <<"A", "b">>       \* client.get_address() for the key
EXCHANGE == <<"E">>              \* client.get_exchange_address()
NEGRISK == <<"N">>               \* a second spender
COLLATERAL == <<"C">>            \* client.get_collateral_address()

\* POLYMARKET_SIGNER: unset, the key's address in another case, another address
Signers == {<<>>, <<"a", "B">>, <<"b", "b">>}
Environs ==
    {e \in [key : {"", "k"}, signer : Signers] : e.key = "" => e.signer = <<>>}

----------------------------------------------------------------------------
(* Off-chain balance/allowance payloads *)

SeqsUpTo(S, n) == UNION {[1..k -> S] : k \in 0..n}

AllowanceItems ==
    {s \in SeqsUpTo([k : {EXCHANGE, NEGRISK}, v : 0..MaxAllow], 2) :
        \A i, j \in DOMAIN s : i # j => s[i].k # s[j].k}

Ledgers ==
    [has_balance : {TRUE}, balance : 0..MaxBalance,
     has_allowances : BOOLEAN, allowances : AllowanceItems]
    \cup [has_balance : {FALSE}, balance : {0},
          has_allowances : BOOLEAN, allowances : AllowanceItems]

DefaultLedger ==
    [has_balance |-> TRUE, balance |-> 1, has_allowances |-> TRUE,
     allowances |-> <<[k |-> EXCHANGE, v |-> 1]>>]

\* A ledger whose allowances key is missing carries no items.
WellFormedLedger(l) == ~l.has_allowances => l.allowances = <<>>

----------------------------------------------------------------------------
(* Order books *)

Levels == [price : 1..MaxPrice, size : {1, 2}]
AskOnlyLevels == [price : 1..MaxPrice, size : {1}]

NoBook == [bids |-> <<>>, asks |-> <<>>, min_order_size |-> 0]

QuoteBooks ==
    UNION {[bids : [1..i -> Levels], asks : SeqsUpTo(Levels, MaxLevels - i),
            min_order_size : {0}] : i \in 0..MaxLevels}

TradeBooks ==
    [bids : {<<>>}, asks : SeqsUpTo(AskOnlyLevels, MaxAsks),
     min_order_size : 0..MaxMinSize]

NoLevel == [none |-> TRUE, price |-> 0, size |-> 0]
Some(l) == [none |-> FALSE, price |-> l.price, size |-> l.size]

\* index of the first level with the extreme price: Python's max/min
\* with key=float(x.price) return the first extreme element
FirstMax(orders) ==
    CHOOSE i \in DOMAIN orders :
        /\ \A j \in DOMAIN orders : orders[j].price <= orders[i].price
        /\ \A j \in 1..(i - 1) : orders[j].price < orders[i].price

FirstMin(orders) ==
    CHOOSE i \in DOMAIN orders :
        /\ \A j \in DOMAIN orders : orders[j].price >= orders[i].price
        /\ \A j \in 1..(i - 1) : orders[j].price > orders[i].price

_best_order_first(orders, best_fn) ==
    IF orders = <<>> THEN NoLevel ELSE Some(orders[1])

_best_order(orders, best_fn) ==
    IF orders = <<>> THEN NoLevel
    ELSE IF best_fn = "max" THEN Some(orders[FirstMax(orders)])
    ELSE Some(orders[FirstMin(orders)])

\* returns the pair and the book object as the call leaves it
_best_bid_ask(b) ==
    [best_bid |-> _best_order(b.bids, "max"),
     best_ask |-> _best_order(b.asks, "min"),
     book |-> b]

----------------------------------------------------------------------------
(* Results of a handler *)

Res(c, e, o, x) ==
    [calls |-> c, stderr |-> e, stdout |-> o, exit |-> x, book |-> NoBook]

\* the same result, with the order-book object the handler was holding
Holding(res, b) == [res EXCEPT !.book = b]

Line(prefix, msg) == [prefix |-> prefix, msg |-> msg]

\* a call that returned (arg: what was passed or what came back) ...
Call(op, arg) == [op |-> op, ok |-> TRUE, arg |-> arg]

\* ... and a call that raised
Raised(op) == [op |-> op, ok |-> FALSE, arg |-> "raised"]

\* the handler's outer "except Exception": one line on stderr, return
Caught(c, e, prefix, msg) == Res(c, Append(e, Line(prefix, msg)), <<>>, 0)

----------------------------------------------------------------------------
(* get_client *)

SignerMatchesAny(signer) == TRUE

\* client.get_address().lower() == expected_signer.lower()
SignerMatches(signer) == Lower(KeyAddress) = Lower(signer)

\* "not key": unset or empty
KeyMissing(env) == env.key = ""

\* faults: the set of client operations that raise in this run
get_client(require_auth, env, faults) ==
    IF ~require_auth THEN [ok |-> TRUE, res |-> Res(<<>>, <<>>, <<>>, 0)]
    ELSE IF KeyMissing(env) THEN
        [ok |-> FALSE,
         res |-> Res(<<>>,
                     <<Line("Error", "POLYMARKET_KEY environment variable not set.")>>,
                     <<>>, 1)]
    ELSE IF "create_or_derive_api_creds" \in faults THEN
        [ok |-> FALSE,
         res |-> Res(<<Raised("create_or_derive_api_creds")>>,
                     <<Line("Error initializing client", "raised")>>, <<>>, 1)]
    ELSE IF env.signer # <<>> /\ ~SignerMatches(env.signer) THEN
        [ok |-> FALSE,
         res |-> Res(<<Call("create_or_derive_api_creds", "ok")>>,
                     <<Line("Error", "POLYMARKET_SIGNER does not match POLYMARKET_KEY-derived address."),
                       Line("Expected", "Got")>>, <<>>, 1)]
    ELSE [ok |-> TRUE,
          res |-> Res(<<Call("create_or_derive_api_creds", "ok")>>, <<>>, <<>>, 0)]

----------------------------------------------------------------------------
(* Balance/allowance preflight of buy and buy-max *)

RECURSIVE MaxV(_)
MaxV(items) ==
    IF Len(items) = 1 THEN items[1].v
    ELSE LET m == MaxV(Tail(items)) IN
         IF items[1].v >= m THEN items[1].v ELSE m

\* "not allowances" covers both None (key missing) and {}
_max_allowance(allowances) ==
    IF allowances = <<>> THEN 0 ELSE MaxV(allowances)

Insufficient(bal) ==
    LET balance == IF bal.has_balance THEN bal.balance ELSE 0
        max_allow == _max_allowance(bal.allowances)
    IN  balance <= 0 \/ max_allow <= 0

PreflightWarning(msg) ==
    Line("Warning: could not preflight balance/allowance", msg)

PreflightStrict(led, faults) ==
    IF "get_balance_allowance" \in faults THEN
        [calls |-> <<Raised("get_balance_allowance")>>,
         stderr |-> <<PreflightWarning("raised")>>, raised |-> TRUE]
    ELSE IF Insufficient(led) THEN
        [calls |-> <<Call("get_balance_allowance", led)>>,
         stderr |-> <<PreflightWarning("insufficient balance/allowance (balance or allowance is 0)")>>,
         raised |-> TRUE]
    ELSE [calls |-> <<Call("get_balance_allowance", led)>>, stderr |-> <<>>,
          raised |-> FALSE]

\* the inner try/except: whatever happens inside, nothing propagates
Preflight(led, faults) ==
    IF "get_balance_allowance" \in faults THEN
        [calls |-> <<Raised("get_balance_allowance")>>,
         stderr |-> <<PreflightWarning("raised")>>, raised |-> FALSE]
    ELSE IF Insufficient(led) THEN
        [calls |-> <<Call("get_balance_allowance", led)>>,
         stderr |-> <<PreflightWarning("insufficient balance/allowance (balance or allowance is 0)")>>,
         raised |-> FALSE]
    ELSE [calls |-> <<Call("get_balance_allowance", led)>>, stderr |-> <<>>,
          raised |-> FALSE]

----------------------------------------------------------------------------
(* Order submission: create_order then post_order *)

OrderArgs(price, size, side) ==
    [price |-> price, size |-> size, side |-> side, token_id |-> TOKEN]

\* size is in 10^-SizeDecimals shares
Submit(c, e, prefix, price, size, side, faults) ==
    LET oa == OrderArgs(price, size, side)
        created(ok) == Append(c, [Call("create_order", oa) EXCEPT !.ok = ok])
        posted(ok) == Append(created(TRUE), [Call("post_order", oa) EXCEPT !.ok = ok])
    IN  IF "create_order" \in faults
        THEN Caught(created(FALSE), e, prefix, "create_order raised")
        ELSE IF "post_order" \in faults
        THEN Caught(posted(FALSE), e, prefix, "post_order raised")
        ELSE Res(posted(TRUE), e, <<[posted |-> oa]>>, 0)

----------------------------------------------------------------------------
(* buy, sell, cancel *)

cmd_buy(args, env, led, faults) ==
    LET gc == get_client(TRUE, env, faults)
        prefix == "Error placing buy order"
    IN  IF ~gc.ok THEN gc.res
        ELSE IF ~IsFloat(args.price) \/ ~IsFloat(args.size) THEN
            Caught(gc.res.calls, <<>>, prefix, "could not convert string to float")
        ELSE
            LET pf == Preflight(led, faults)
                c == gc.res.calls \o pf.calls
            IN  IF pf.raised THEN Caught(c, pf.stderr, prefix, "insufficient balance/allowance")
                ELSE Submit(c, pf.stderr, prefix, args.price.v, args.size.v * Micro,
                            "BUY", faults)

cmd_sell(args, env, faults) ==
    LET gc == get_client(TRUE, env, faults)
        prefix == "Error placing sell order"
    IN  IF ~gc.ok THEN gc.res
        ELSE IF ~IsFloat(args.price) \/ ~IsFloat(args.size) THEN
            Caught(gc.res.calls, <<>>, prefix, "could not convert string to float")
        ELSE Submit(gc.res.calls, <<>>, prefix, args.price.v, args.size.v * Micro,
                    "SELL", faults)

ArgExitCaught(c, msg) == Caught(c, <<>>, "Error", msg)

\* print to stderr, then sys.exit(1): SystemExit is not an Exception, so
\* the handler's "except Exception" does not catch it
ArgExit(c, msg) == Res(c, <<Line("Error", msg)>>, <<>>, 1)

cmd_cancel(args, env, faults) ==
    LET gc == get_client(TRUE, env, faults)
        prefix == "Error canceling order"
        c == gc.res.calls
    IN  IF ~gc.ok THEN gc.res
        ELSE IF args.all /\ Truthy(args.order_id) THEN
            ArgExit(c, "use either --all or --order-id, not both.")
        ELSE IF ~args.all /\ ~Truthy(args.order_id) THEN
            ArgExit(c, "provide --order-id or use --all.")
        ELSE IF args.all THEN
            IF "cancel_all" \in faults
            THEN Caught(Append(c, Raised("cancel_all")), <<>>, prefix, "cancel_all raised")
            ELSE Res(Append(c, Call("cancel_all", "ok")), <<>>, <<[canceled |-> "all"]>>, 0)
        ELSE
            IF "cancel" \in faults
            THEN Caught(Append(c, Raised("cancel")), <<>>, prefix, "cancel raised")
            ELSE Res(Append(c, Call("cancel", "ok")), <<>>, <<[canceled |-> "one"]>>, 0)

----------------------------------------------------------------------------
(* buy-max: sizing under a USD cap *)

\* cap / price as an exact fraction with a positive denominator (price # 0)
SizeOf(cap, price) ==
    IF price > 0 THEN [n |-> cap, d |-> price] ELSE [n |-> -cap, d |-> -price]

Whole(k) == [n |-> k, d |-> 1]

\* The sign of the float error of the three results buy-max compares:
\* quot of max_usd / price, prod of min_order_size * price, notional of
\* price * (max_usd / price).  Only the direction that can turn the
\* comparison at an exact tie is kept apart from "no error".
Exact == [quot |-> 0, prod |-> 0, notional |-> 0]

Roundings == [quot : {-1, 0}, prod : {0, 1}, notional : {-1, 0}]

\* size < k, for a size whose float is off its exact value by err
SizeLess(size, k, err) ==
    \/ size.n < k * size.d
    \/ size.n = k * size.d /\ err < 0

cost_within_no_price(min_size, price, cap, err) == min_size <= cap

\* min_cost = min_size * price; min_cost <= cap, the product off by err
cost_within(min_size, price, cap, err) ==
    \/ min_size * price < cap
    \/ min_size * price = cap /\ err <= 0

\* n / d (d > 0) rounded to the nearest integer, ties to even
RoundHalfEven(n, d) ==
    LET q == (2 * n + d) \div (2 * d)
    IN  IF (2 * n + d) % (2 * d) = 0 /\ q % 2 = 1 THEN q - 1 ELSE q

RoundSizeUp(size) == -(((-size.n) * Micro) \div size.d)

\* round(size, 6), in 10^-6 shares
RoundSize(size) == RoundHalfEven(size.n * Micro, size.d)

is_marketable_strict(best_ask, price) == ~best_ask.none /\ price > best_ask.price

is_marketable(best_ask, price) == ~best_ask.none /\ price >= best_ask.price

\* notional = price * size < 1, the product off by err
NotionalBelowMin(price, size, err) ==
    \/ price * size.n < MinNotional * size.d
    \/ price * size.n = MinNotional * size.d /\ err < 0

CapInvalidStrict(cap) == cap < 0

CapInvalid(cap) == cap <= 0

\* the handler after a successful get_client
buy_max_body(args, led, bk, fl, faults, c0) ==
    LET prefix == "Error placing buy-max order"
        c1 == Append(c0, Call("get_order_book", bk))
        bba == _best_bid_ask(bk)
        Fail(msg) == Holding(Caught(c1, <<>>, prefix, msg), bba.book)
    IN  IF "get_order_book" \in faults THEN
            Caught(Append(c0, Raised("get_order_book")), <<>>, prefix,
                   "get_order_book raised")
        ELSE IF Truthy(args.price) /\ ~IsFloat(args.price) THEN
            Fail("could not convert string to float")
        ELSE IF ~Truthy(args.price) /\ bba.best_ask.none THEN
            Fail("No asks available for this token.")
        ELSE
            LET price == IF Truthy(args.price) THEN args.price.v
                         ELSE bba.best_ask.price
            IN  IF ~IsFloat(args.max_usd) THEN
                    Fail("could not convert string to float")
                ELSE IF CapInvalid(args.max_usd.v) THEN Fail("max_usd must be > 0.")
                ELSE IF price = 0 THEN Fail("float division by zero")
                ELSE
                    LET cap == args.max_usd.v
                        min_size == bk.min_order_size
                        raw == SizeOf(cap, price)
                        under == min_size > 0 /\ SizeLess(raw, min_size, fl.quot)
                        size == IF under THEN Whole(min_size) ELSE raw
                        \* price * min_size is the product min_cost again
                        err == IF under THEN fl.prod ELSE fl.notional
                    IN  IF under /\ ~cost_within(min_size, price, cap, fl.prod) THEN
                            Fail("max_usd too low for min order size.")
                        ELSE IF is_marketable(bba.best_ask, price)
                                /\ NotionalBelowMin(price, size, err) THEN
                            Fail("Marketable buy notional below $1 minimum.")
                        ELSE
                            LET pf == Preflight(led, faults)
                                c2 == c1 \o pf.calls
                            IN  IF pf.raised THEN
                                    Holding(Caught(c2, pf.stderr, prefix,
                                                   "insufficient balance/allowance"),
                                            bba.book)
                                ELSE Holding(Submit(c2, pf.stderr, prefix, price,
                                                    RoundSize(size), "BUY", faults),
                                             bba.book)

\* The roundings a run on these operands can meet.  The quotient and the
\* product can be off the number they are compared with only where they
\* equal it exactly (max_usd = min_order_size * price), the notional only
\* where max_usd / price * price is 1 USD exactly.
RoundingsAt(args, bk) ==
    LET price == IF Truthy(args.price) THEN args.price.v
                 ELSE _best_bid_ask(bk).best_ask.price
        cap == args.max_usd.v
        min_size == bk.min_order_size
    IN  {r \in Roundings :
            /\ (r.quot # 0 \/ r.prod # 0) =>
                  (cap > 0 /\ min_size > 0 /\ cap = min_size * price)
            /\ r.notional # 0 => cap = MinNotional}

cmd_buy_max(args, env, led, bk, fl, faults) ==
    LET gc == get_client(TRUE, env, faults)
    IN  IF ~gc.ok THEN gc.res
        ELSE buy_max_body(args, led, bk, fl, faults, gc.res.calls)

----------------------------------------------------------------------------
(* Read-only market data: markets, orderbook, quote *)

cmd_markets(args, env, faults) ==
    LET gc == get_client(FALSE, env, faults)
        prefix == "Error fetching markets"
        op == IF Truthy(args.id) THEN "get_market"
              ELSE IF args.sampling THEN "get_sampling_simplified_markets"
              ELSE "get_simplified_markets"
    IN  IF op \in faults
        THEN Caught(<<Raised(op)>>, <<>>, prefix, "raised")
        ELSE Res(<<Call(op, "ok")>>, <<>>, <<[markets |-> op]>>, 0)

cmd_orderbook(args, env, bk, faults) ==
    LET gc == get_client(FALSE, env, faults)
        prefix == "Error fetching orderbook"
    IN  IF "get_order_book" \in faults
        THEN Caught(<<Raised("get_order_book")>>, <<>>, prefix, "raised")
        ELSE Holding(Res(<<Call("get_order_book", bk)>>, <<>>, <<[orderbook |-> bk]>>, 0),
                     bk)

cmd_quote(args, env, bk, faults) ==
    LET gc == get_client(FALSE, env, faults)
        prefix == "Error fetching quote"
        bba == _best_bid_ask(bk)
    IN  IF "get_order_book" \in faults
        THEN Caught(<<Raised("get_order_book")>>, <<>>, prefix, "raised")
        ELSE Holding(Res(<<Call("get_order_book", bk)>>, <<>>,
                         <<[token_id |-> TOKEN, best_bid |-> bba.best_bid,
                            best_ask |-> bba.best_ask,
                            min_order_size |-> bk.min_order_size]>>, 0),
                     bba.book)

----------------------------------------------------------------------------
(* balance, refresh-balance, whoami *)

AssetTypeOk(a) == a \in {"", "collateral", "conditional"}

cmd_balance(args, env, led, faults) ==
    LET gc == get_client(TRUE, env, faults)
        prefix == "Error fetching balance/allowance"
        c == gc.res.calls
    IN  IF ~gc.ok THEN gc.res
        ELSE IF ~AssetTypeOk(args.asset_type) THEN
            Caught(c, <<>>, prefix, "asset_type must be collateral or conditional")
        ELSE IF "get_balance_allowance" \in faults THEN
            Caught(Append(c, Raised("get_balance_allowance")), <<>>, prefix, "raised")
        ELSE Res(Append(c, Call("get_balance_allowance", led)), <<>>, <<led>>, 0)

\* led is the exchange's view after the refresh
cmd_refresh_balance(args, env, led, faults) ==
    LET gc == get_client(TRUE, env, faults)
        prefix == "Error refreshing balance/allowance"
        c == gc.res.calls
    IN  IF ~gc.ok THEN gc.res
        ELSE IF ~AssetTypeOk(args.asset_type) THEN
            Caught(c, <<>>, prefix, "asset_type must be collateral or conditional")
        ELSE IF "update_balance_allowance" \in faults THEN
            Caught(Append(c, Raised("update_balance_allowance")), <<>>, prefix, "raised")
        ELSE Res(Append(c, Call("update_balance_allowance", "ok")), <<>>, <<led>>, 0)

WhoAmI == [address |-> KeyAddress, collateral |-> COLLATERAL, exchange |-> EXCHANGE]

cmd_whoami(args, env, faults) ==
    LET gc == get_client(TRUE, env, faults)
    IN  IF ~gc.ok THEN gc.res
        ELSE Res(gc.res.calls, <<>>, <<WhoAmI>>, 0)

----------------------------------------------------------------------------
(* diagnose *)

RpcResults == {[ok |-> FALSE, v |-> 0]} \cup [ok : {TRUE}, v : 0..MaxAllow]

\* list((bal.get("allowances") or {}).keys()) or [who["exchange"]]
Spenders(bal, who) ==
    IF bal.allowances = <<>> THEN <<who.exchange>>
    ELSE [i \in DOMAIN bal.allowances |-> bal.allowances[i].k]

\* the lookups up to and including the first failing one, then the raise
OnchainLookupsAbort(spenders, rpc) ==
    LET bad == {i \in DOMAIN spenders : ~rpc[spenders[i]].ok}
        n == IF bad = {} THEN Len(spenders)
             ELSE CHOOSE i \in bad : \A j \in bad : i <= j
    IN  [items |-> [i \in 1..(IF bad = {} THEN n ELSE n - 1) |->
                       [k |-> spenders[i], ok |-> TRUE, v |-> rpc[spenders[i]].v]],
         calls |-> [i \in 1..n |-> Call("eth_call", spenders[i])],
         raised |-> bad # {}]

\* one _rpc_allowance per spender, each inside its own try/except;
\* rpc[s] is what the lookup for spender s does in this run
OnchainLookups(spenders, rpc) ==
    [items |-> [i \in DOMAIN spenders |->
                   [k |-> spenders[i], ok |-> rpc[spenders[i]].ok,
                    v |-> rpc[spenders[i]].v]],
     calls |-> [i \in DOMAIN spenders |-> Call("eth_call", spenders[i])],
     raised |-> FALSE]

FUND == "Fund the proxy wallet (funder) with USDC on Polygon."
FUND_STEP == "Fund USDC to the proxy wallet address shown in whoami.funder."
APPROVE == "Approve USDC to CLOB Exchange in UI."
APPROVE_STEP == "Open Polymarket, click Buy, approve USDC."
REFRESH == "Onchain allowance exists but API shows 0: run refresh-balance."
REFRESH_STEP == "Run: refresh-balance --asset-type collateral"

If(cond, x) == IF cond THEN <<x>> ELSE <<>>

RecommendNoRefresh(bal, fetched, onchain) ==
    LET balance == IF bal.has_balance THEN bal.balance ELSE 0
        max_allow == _max_allowance(bal.allowances)
    IN  [recs |-> If(balance <= 0, FUND) \o If(max_allow <= 0, APPROVE),
         steps |-> If(balance <= 0, FUND_STEP) \o If(max_allow <= 0, APPROVE_STEP)]

\* the --fix block: recs and steps, from bal and the on-chain results
Recommend(bal, fetched, onchain) ==
    LET balance == IF bal.has_balance THEN bal.balance ELSE 0
        max_allow == _max_allowance(bal.allowances)
        on_vals == {onchain[i].v : i \in {j \in DOMAIN onchain : onchain[j].ok}}
        stale == /\ fetched
                 /\ on_vals # {}
                 /\ max_allow <= 0
                 /\ \E v \in on_vals : v > 0
    IN  [recs |-> If(balance <= 0, FUND) \o If(max_allow <= 0, APPROVE)
                    \o If(stale, REFRESH),
         steps |-> If(balance <= 0, FUND_STEP) \o If(max_allow <= 0, APPROVE_STEP)
                    \o If(stale, REFRESH_STEP)]

\* led is the exchange's view when _get_balance_allowance is called, that
\* is after the update_balance_allowance of --fix
cmd_diagnose(args, env, led, rpc, faults) ==
    LET gc == get_client(TRUE, env, faults)
        prefix == "Error running diagnose"
        c0 == gc.res.calls
        c1 == IF ~args.fix THEN c0
              ELSE IF "update_balance_allowance" \in faults
              THEN Append(c0, Raised("update_balance_allowance"))
              ELSE Append(c0, Call("update_balance_allowance", "ok"))
        bal == led
        oc == OnchainLookups(Spenders(bal, WhoAmI), rpc)
        c2 == Append(c1, Call("get_balance_allowance", bal))
        c3 == IF args.onchain THEN c2 \o oc.calls ELSE c2
        rec == Recommend(bal, args.onchain, IF args.onchain THEN oc.items ELSE <<>>)
    IN  IF ~gc.ok THEN gc.res
        ELSE IF "get_balance_allowance" \in faults THEN
            Caught(Append(c1, Raised("get_balance_allowance")), <<>>, prefix, "raised")
        ELSE IF args.onchain /\ oc.raised THEN Caught(c3, <<>>, prefix, "rpc error")
        ELSE Res(c3, <<>>,
                 <<[whoami |-> WhoAmI, balance_allowance |-> bal,
                    has_onchain |-> args.onchain,
                    onchain_allowances |-> IF args.onchain THEN oc.items ELSE <<>>,
                    has_recommendations |-> args.fix,
                    recommendations |-> IF args.fix THEN rec.recs ELSE <<>>,
                    next_steps |-> IF args.fix THEN rec.steps ELSE <<>>]>>, 0)

----------------------------------------------------------------------------
(* Command lines *)

Prices == {Text} \cup {Num(n) : n \in 1..MaxPrice}
Sizes == {Text} \cup {Num(n) : n \in 1..MaxSize}

MarketsArgs == [command : {"markets"}, id : {Absent, Text}, sampling : BOOLEAN]
OrderbookArgs == [command : {"orderbook"}]
BuyArgs == [command : {"buy"}, size : Sizes, price : Prices]
SellArgs == [command : {"sell"}, size : Sizes, price : Prices]
CancelArgs == [command : {"cancel"}, all : BOOLEAN, order_id : {Absent, Empty, Text}]
QuoteArgs == [command : {"quote"}]
BuyMaxArgs ==
    [command : {"buy-max"},
     max_usd : {Text} \cup {Num(n) : n \in (-1)..MaxCap},
     price : {Absent, Empty, Text} \cup {Num(n) : n \in (-1)..MaxPrice}]
AssetTypes == {"", "collateral", "conditional", "bogus"}
BalanceArgs == [command : {"balance"}, asset_type : AssetTypes]
RefreshArgs == [command : {"refresh-balance"}, asset_type : AssetTypes]
WhoamiArgs == [command : {"whoami"}]
DiagnoseArgs == [command : {"diagnose"}, onchain : BOOLEAN, fix : BOOLEAN]

Argvs ==
    MarketsArgs \cup OrderbookArgs \cup BuyArgs \cup SellArgs \cup CancelArgs
    \cup QuoteArgs \cup BuyMaxArgs \cup BalanceArgs \cup RefreshArgs
    \cup WhoamiArgs \cup DiagnoseArgs

AllLedgers == {l \in Ledgers : WellFormedLedger(l)}

\* views with a balance of 0 or 1 and at most the exchange as spender
TradeLedgers ==
    [has_balance : {TRUE}, balance : {0, 1}, has_allowances : {TRUE},
     allowances : {<<>>, <<[k |-> EXCHANGE, v |-> 0]>>, <<[k |-> EXCHANGE, v |-> 1]>>}]

\* the exchange views a run of the command is started against
LedgersFor(command) ==
    IF command \in {"buy", "buy-max"} THEN TradeLedgers
    ELSE IF command \in {"balance", "refresh-balance", "diagnose"} THEN AllLedgers
    ELSE {DefaultLedger}

Authenticated ==
    {"buy", "sell", "cancel", "buy-max", "balance", "refresh-balance", "whoami",
     "diagnose"}

----------------------------------------------------------------------------
(* The process *)

Init ==
    /\ argv \in Argvs
    /\ environ \in Environs
    /\ ledger \in LedgersFor(argv.command)
    /\ rounding = Exact
    /\ book = NoBook
    /\ pc = "start"
    /\ calls = <<>>
    /\ stderr = <<>>
    /\ stdout = <<>>
    /\ exit_status = 0

Finish(res) ==
    /\ pc' = "exited"
    /\ calls' = res.calls
    /\ stderr' = res.stderr
    /\ stdout' = res.stdout
    /\ exit_status' = res.exit
    /\ book' = res.book
    /\ UNCHANGED <<argv, environ>>

Dispatch(command) == pc = "start" /\ argv.command = command

\* Fault sets: the client operations that raise in this run.  A raise the
\* handler does not catch ends the handler, so at most one of those is
\* drawn; raises the handler catches and survives are drawn freely.
FaultSets(fatal, survived) ==
    {f \in SUBSET (fatal \cup survived) : Cardinality(f \cap fatal) <= 1}

ClientFaults == SUBSET {"create_or_derive_api_creds"}

\* what get_order_book may return; nothing is returned when it raises
Fetched(books, faults) ==
    IF "get_order_book" \in faults THEN {NoBook} ELSE books

ClientOk(cf) == get_client(TRUE, environ, cf).ok

Markets ==
    /\ Dispatch("markets")
    /\ \E faults \in FaultSets({"get_market", "get_simplified_markets",
                                 "get_sampling_simplified_markets"}, {}) :
          Finish(cmd_markets(argv, environ, faults))
    /\ UNCHANGED <<ledger, rounding>>

Orderbook ==
    /\ Dispatch("orderbook")
    /\ \E faults \in FaultSets({"get_order_book"}, {}) :
          \E bk \in Fetched(TradeBooks, faults) :
              Finish(cmd_orderbook(argv, environ, bk, faults))
    /\ UNCHANGED <<ledger, rounding>>

Buy ==
    /\ Dispatch("buy")
    /\ \E cf \in ClientFaults :
          IF ClientOk(cf)
          THEN \E faults \in FaultSets({"create_order", "post_order"},
                                       {"get_balance_allowance"}) :
                  Finish(cmd_buy(argv, environ, ledger, faults))
          ELSE Finish(cmd_buy(argv, environ, ledger, cf))
    /\ UNCHANGED <<ledger, rounding>>

Sell ==
    /\ Dispatch("sell")
    /\ \E cf \in ClientFaults :
          IF ClientOk(cf)
          THEN \E faults \in FaultSets({"create_order", "post_order"}, {}) :
                  Finish(cmd_sell(argv, environ, faults))
          ELSE Finish(cmd_sell(argv, environ, cf))
    /\ UNCHANGED <<ledger, rounding>>

Cancel ==
    /\ Dispatch("cancel")
    /\ \E cf \in ClientFaults :
          IF ClientOk(cf)
          THEN \E faults \in FaultSets({"cancel", "cancel_all"}, {}) :
                  Finish(cmd_cancel(argv, environ, faults))
          ELSE Finish(cmd_cancel(argv, environ, cf))
    /\ UNCHANGED <<ledger, rounding>>

Quote ==
    /\ Dispatch("quote")
    /\ \E faults \in FaultSets({"get_order_book"}, {}) :
          \E bk \in Fetched(QuoteBooks, faults) :
              Finish(cmd_quote(argv, environ, bk, faults))
    /\ UNCHANGED <<ledger, rounding>>

BuyMax ==
    /\ Dispatch("buy-max")
    /\ \E cf \in ClientFaults :
          IF ClientOk(cf)
          THEN \E faults \in FaultSets({"get_order_book", "create_order", "post_order"},
                                       {"get_balance_allowance"}) :
                  \E bk \in Fetched(TradeBooks, faults) :
                      \E fl \in RoundingsAt(argv, bk) :
                          /\ rounding' = fl
                          /\ Finish(cmd_buy_max(argv, environ, ledger, bk, fl, faults))
          ELSE /\ Finish(cmd_buy_max(argv, environ, ledger, NoBook, Exact, cf))
               /\ UNCHANGED rounding
    /\ UNCHANGED ledger

Balance ==
    /\ Dispatch("balance")
    /\ \E cf \in ClientFaults :
          IF ClientOk(cf)
          THEN \E faults \in FaultSets({"get_balance_allowance"}, {}) :
                  Finish(cmd_balance(argv, environ, ledger, faults))
          ELSE Finish(cmd_balance(argv, environ, ledger, cf))
    /\ UNCHANGED <<ledger, rounding>>

\* update_balance_allowance re-syncs the exchange's view; when it is
\* reached and does not raise, the view afterwards may be any view
Synced(reached, faults) ==
    IF reached /\ "update_balance_allowance" \notin faults
    THEN AllLedgers ELSE {ledger}

RefreshBalance ==
    /\ Dispatch("refresh-balance")
    /\ \E cf \in ClientFaults :
          IF ClientOk(cf)
          THEN \E faults \in FaultSets({"update_balance_allowance"}, {}) :
                  \E synced \in Synced(AssetTypeOk(argv.asset_type), faults) :
                      /\ ledger' = synced
                      /\ Finish(cmd_refresh_balance(argv, environ, synced, faults))
          ELSE /\ Finish(cmd_refresh_balance(argv, environ, ledger, cf))
               /\ UNCHANGED ledger
    /\ UNCHANGED rounding

Whoami ==
    /\ Dispatch("whoami")
    /\ \E cf \in ClientFaults : Finish(cmd_whoami(argv, environ, cf))
    /\ UNCHANGED <<ledger, rounding>>

NoRpc == [s \in {EXCHANGE, NEGRISK} |-> [ok |-> FALSE, v |-> 0]]

SnapshotBefore(before, after) == before

\* the view _get_balance_allowance returns to cmd_diagnose: it is called
\* after the update_balance_allowance of --fix, so it is the view after it
Snapshot(before, after) == after

Diagnose ==
    /\ Dispatch("diagnose")
    /\ \E cf \in ClientFaults :
          IF ClientOk(cf)
          THEN \E faults \in FaultSets({"get_balance_allowance"},
                                       {"update_balance_allowance"}) :
                  \E synced \in Synced(argv.fix, faults),
                     rpc \in IF argv.onchain /\ "get_balance_allowance" \notin faults
                             THEN [{EXCHANGE, NEGRISK} -> RpcResults]
                             ELSE {NoRpc} :
                      /\ ledger' = synced
                      /\ Finish(cmd_diagnose(argv, environ, Snapshot(ledger, synced),
                                              rpc, faults))
          ELSE /\ Finish(cmd_diagnose(argv, environ, ledger, NoRpc, cf))
               /\ UNCHANGED ledger
    /\ UNCHANGED rounding

Next ==
    \/ Markets
    \/ Orderbook
    \/ Buy
    \/ Sell
    \/ Cancel
    \/ Quote
    \/ BuyMax
    \/ Balance
    \/ RefreshBalance
    \/ Whoami
    \/ Diagnose

Spec == Init /\ [][Next]_vars

----------------------------------------------------------------------------
(* Reading a finished run *)

Exited == pc = "exited"

Running(command) == Exited /\ argv.command = command

Called(op) == \E i \in DOMAIN calls : calls[i].op = op

Returned(op) == \E i \in DOMAIN calls : calls[i].op = op /\ calls[i].ok

IndexOf(op) == CHOOSE i \in DOMAIN calls : calls[i].op = op

Said(prefix, msg) == \E i \in DOMAIN stderr : stderr[i] = Line(prefix, msg)

Warned ==
    \E i \in DOMAIN stderr :
        stderr[i].prefix = "Warning: could not preflight balance/allowance"

\* get_client ended the process
ConfigError ==
    \/ Said("Error", "POLYMARKET_KEY environment variable not set.")
    \/ Said("Error initializing client", "raised")
    \/ Said("Error", "POLYMARKET_SIGNER does not match POLYMARKET_KEY-derived address.")

\* the book get_order_book returned in this run
FetchedBook == calls[IndexOf("get_order_book")].arg

\* the order buy computes from its arguments alone
BuyOrder ==
    [price |-> argv.price.v, size |-> argv.size.v * (10 ^ 6), side |-> "BUY",
     token_id |-> TOKEN]

\* buy-max: the effective price, from the arguments and the fetched book
AskPrices == {FetchedBook.asks[i].price : i \in DOMAIN FetchedBook.asks}

LowestAsk == CHOOSE p \in AskPrices : \A q \in AskPrices : p <= q

EffectivePrice == IF argv.price.t = "num" THEN argv.price.v ELSE LowestAsk

\* buy-max got as far as a price and a positive budget to divide by it
Sizable ==
    /\ Running("buy-max")
    /\ Returned("get_order_book")
    /\ argv.price.t = "num" \/ (argv.price.t \in {"absent", "empty"} /\ AskPrices # {})
    /\ argv.max_usd.t = "num" /\ argv.max_usd.v > 0
    /\ EffectivePrice # 0

\* the exact values the minimum-order-size step compares
MinCost == FetchedBook.min_order_size * EffectivePrice

\* max_usd / price is min_order_size exactly
Tie == argv.max_usd.v = MinCost

\* raw size max_usd / price, as computed, below the book's minimum order size
BelowMinSize ==
    /\ FetchedBook.min_order_size > 0
    /\ IF EffectivePrice > 0
       THEN argv.max_usd.v < MinCost \/ (Tie /\ rounding.quot < 0)
       ELSE argv.max_usd.v > MinCost

\* min_order_size * price, as computed, within max_usd
WithinBudget == MinCost < argv.max_usd.v \/ (Tie /\ rounding.prod <= 0)

\* the minimum-order-size override: size raised to min_order_size
Overridden == BelowMinSize /\ WithinBudget

\* buy-max got past the minimum-order-size step with a size
Sized == Sizable /\ (BelowMinSize => Overridden)

\* is the order marketable: some ask is priced at or below the price
Marketable == \E p \in AskPrices : EffectivePrice >= p

\* price * size < 1 USD, for the size of the minimum-order-size step
SmallNotional ==
    IF Overridden
    THEN EffectivePrice * FetchedBook.min_order_size < MinNotional
    ELSE \/ argv.max_usd.v < MinNotional
         \/ argv.max_usd.v = MinNotional /\ rounding.notional < 0

----------------------------------------------------------------------------
(* C1: in buy and buy-max the preflight never blocks the order.  Once the  *)
(* balance query has been issued, whether it raised, reported a balance    *)
(* <= 0 or a maximum allowance <= 0, a warning is written in those cases   *)
(* and the next call is create_order, followed (unless create_order itself *)
(* raised) by post_order, with the price, size and token the arguments and *)
(* the book alone determine.                                               *)

PreflightFailed ==
    LET q == calls[IndexOf("get_balance_allowance")]
    IN  \/ ~q.ok
        \/ ~q.arg.has_balance
        \/ q.arg.balance <= 0
        \/ \A i \in DOMAIN q.arg.allowances : q.arg.allowances[i].v <= 0

\* the next call is create_order and, unless that raised, post_order of
\* the same order ends the run
SubmittedAfterPreflight ==
    LET i == IndexOf("get_balance_allowance")
    IN  /\ Len(calls) > i
        /\ calls[i + 1].op = "create_order"
        /\ calls[i + 1].ok =>
              /\ Len(calls) = i + 2
              /\ calls[i + 2].op = "post_order"
              /\ calls[i + 2].arg = calls[i + 1].arg

Abs(x) == IF x < 0 THEN -x ELSE x

\* m is max_usd / price in 10^-6 shares, to the nearest unit
NearestToBudget(m) ==
    2 * Abs(m * EffectivePrice - argv.max_usd.v * (10 ^ 6)) <= Abs(EffectivePrice)

\* the order buy-max computes from its arguments and the book alone
IsBuyMaxOrder(order) ==
    /\ order.price = EffectivePrice
    /\ order.side = "BUY"
    /\ order.token_id = TOKEN
    /\ IF Overridden THEN order.size = FetchedBook.min_order_size * (10 ^ 6)
       ELSE NearestToBudget(order.size)

C1_PreflightNeverBlocks ==
    /\ (Running("buy") /\ Called("get_balance_allowance")) =>
          /\ PreflightFailed <=> Warned
          /\ SubmittedAfterPreflight
          /\ calls[IndexOf("create_order")].arg = BuyOrder
    /\ (Running("buy-max") /\ Called("get_balance_allowance")) =>
          /\ PreflightFailed <=> Warned
          /\ SubmittedAfterPreflight
          /\ IsBuyMaxOrder(calls[IndexOf("create_order")].arg)

\* buy-max posts its order although the balance query reported balance 0
C1_Witness ==
    /\ Running("buy-max")
    /\ Returned("get_balance_allowance")
    /\ calls[IndexOf("get_balance_allowance")].arg.balance = 0
    /\ Warned
    /\ Returned("post_order")
    /\ stdout # <<>>

----------------------------------------------------------------------------
(* C2: in buy-max, an order that is marketable (the book has an ask priced *)
(* at or below the effective price) with price * size below 1 USD fails    *)
(* with the notional-below-minimum error and neither create_order nor      *)
(* post_order is called; an order priced below the best ask, or against a  *)
(* book with no asks, never gets that error and goes on to the preflight   *)
(* and create_order.                                                       *)

BuyMaxError(msg) == Said("Error placing buy-max order", msg)

NotionalError == BuyMaxError("Marketable buy notional below $1 minimum.")

C2_MarketableNotionalFloor ==
    Sized =>
        /\ NotionalError <=> (Marketable /\ SmallNotional)
        /\ NotionalError =>
              /\ ~Called("create_order")
              /\ ~Called("post_order")
              /\ stdout = <<>>
        /\ ~NotionalError =>
              /\ Called("get_balance_allowance")
              /\ Called("create_order")

\* a limit price equal to the best ask with a budget under 1 USD
C2_Witness ==
    /\ Sized
    /\ argv.price.t = "num"
    /\ AskPrices # {}
    /\ EffectivePrice = LowestAsk
    /\ argv.max_usd.v < MinNotional
    /\ NotionalError
    /\ ~Called("create_order")

----------------------------------------------------------------------------
(* C3: every order buy-max submits, other than one sized by the            *)
(* minimum-order-size override, has rounded size * price <= max_usd plus   *)
(* the rounding epsilon of the 6-decimal rounding (half a unit of the last *)
(* decimal, times the price).                                              *)

C3_WithinBudget ==
    (Running("buy-max") /\ Called("create_order") /\ ~Overridden) =>
        LET order == calls[IndexOf("create_order")].arg
        IN  2 * order.size * order.price
                <= 2 * argv.max_usd.v * (10 ^ 6) + Abs(order.price)

\* an order whose size was rounded up, so that size * price is over budget
C3_Witness ==
    /\ Running("buy-max")
    /\ Returned("post_order")
    /\ ~Overridden
    /\ LET order == calls[IndexOf("create_order")].arg
       IN  /\ order.price > 0
           /\ order.size * order.price > argv.max_usd.v * (10 ^ 6)

----------------------------------------------------------------------------
(* C4: a limit price given to buy-max must be > 0: with --price zero or    *)
(* negative buy-max fails, writes an error and calls neither create_order  *)
(* nor post_order.                                                         *)

C4_NonPositivePriceRejected ==
    (Running("buy-max") /\ argv.price.t = "num" /\ argv.price.v <= 0) =>
        /\ stderr # <<>>
        /\ stdout = <<>>
        /\ ~Called("create_order")
        /\ ~Called("post_order")

----------------------------------------------------------------------------
(* C5: with max_usd <= 0 buy-max submits no order.  As first stated, it    *)
(* always fails with "max_usd must be > 0", also when no limit price is    *)
(* given and the book has no asks.                                         *)

\* buy-max with max_usd <= 0, the client built, the book fetched and a
\* --price that is absent or a number
NonPositiveBudget ==
    /\ Running("buy-max")
    /\ ~ConfigError
    /\ Returned("get_order_book")
    /\ argv.price.t # "text"
    /\ argv.max_usd.t = "num"
    /\ argv.max_usd.v <= 0

NoPriceNoAsks == argv.price.t \in {"absent", "empty"} /\ AskPrices = {}

C5_MaxUsdErrorAlways ==
    NonPositiveBudget =>
        /\ BuyMaxError("max_usd must be > 0.")
        /\ ~Called("create_order")
        /\ ~Called("post_order")

(* C5 as amended: with max_usd <= 0 no order is submitted; the error is    *)
(* "max_usd must be > 0" when a limit price is given or the book has an    *)
(* ask, and "No asks available for this token." when no limit price is     *)
(* given and the book has no asks, since the liquidity check runs first.   *)

C5_MaxUsdErrorAfterLiquidity ==
    NonPositiveBudget =>
        /\ ~Called("create_order")
        /\ ~Called("post_order")
        /\ stdout = <<>>
        /\ Len(stderr) = 1
        /\ IF NoPriceNoAsks
           THEN BuyMaxError("No asks available for this token.")
           ELSE BuyMaxError("max_usd must be > 0.")

C5_Witness ==
    /\ NonPositiveBudget
    /\ NoPriceNoAsks
    /\ BuyMaxError("No asks available for this token.")
    /\ ~BuyMaxError("max_usd must be > 0.")

----------------------------------------------------------------------------
(* C6: _best_bid_ask returns as best bid a level of the book's bids whose  *)
(* price is >= every bid's price and as best ask a level of the book's     *)
(* asks whose price is <= every ask's price, None for a side exactly when  *)
(* that side is empty, and leaves the book's lists as they were fetched.   *)

IsLevelOf(best, levels) ==
    \E i \in DOMAIN levels :
        levels[i] = [price |-> best.price, size |-> best.size]

C6_BestBidAsk ==
    (Running("quote") /\ Returned("get_order_book")) =>
        /\ stdout # <<>>
        /\ LET quote == stdout[1]
               fetched == FetchedBook
           IN  /\ quote.best_bid.none <=> fetched.bids = <<>>
               /\ quote.best_ask.none <=> fetched.asks = <<>>
               /\ ~quote.best_bid.none =>
                     /\ IsLevelOf(quote.best_bid, fetched.bids)
                     /\ \A j \in DOMAIN fetched.bids :
                           fetched.bids[j].price <= quote.best_bid.price
               /\ ~quote.best_ask.none =>
                     /\ IsLevelOf(quote.best_ask, fetched.asks)
                     /\ \A j \in DOMAIN fetched.asks :
                           fetched.asks[j].price >= quote.best_ask.price
               /\ book = fetched

\* a quote of a book whose best bid is not its first bid, with an ask
C6_Witness ==
    /\ Running("quote")
    /\ Returned("get_order_book")
    /\ Len(FetchedBook.bids) >= 2
    /\ FetchedBook.bids[1].price < stdout[1].best_bid.price
    /\ FetchedBook.asks # <<>>
    /\ ~stdout[1].best_ask.none

----------------------------------------------------------------------------
(* C7: a command-level error that is no configuration error is caught at   *)
(* the command boundary and reported on standard error.  As first stated,  *)
(* this holds of every argument error, cancel's --all/--order-id conflict  *)
(* included: the process completes with exit status 0 without having       *)
(* called the exchange operation.                                          *)

CancelFlagsError ==
    /\ Running("cancel")
    /\ ~ConfigError
    /\ \/ argv.all /\ argv.order_id.t = "text"
       \/ ~argv.all /\ argv.order_id.t # "text"

NonNumericOrder ==
    /\ Exited
    /\ argv.command \in {"buy", "sell"}
    /\ ~ConfigError
    /\ argv.price.t = "text" \/ argv.size.t = "text"

NoExchangeOperation ==
    \A op \in {"create_order", "post_order", "cancel", "cancel_all"} : ~Called(op)

C7_ArgumentErrorsExitZero ==
    (CancelFlagsError \/ NonNumericOrder) =>
        /\ stderr # <<>>
        /\ exit_status = 0
        /\ NoExchangeOperation

(* C7 as amended: non-numeric size/price in buy and sell, and a raising    *)
(* exchange call, are caught, reported as one error line, and the process  *)
(* completes with status 0 (argument errors without an exchange            *)
(* operation); cancel with both or neither of --all and --order-id writes  *)
(* an error line and ends the process with status 1 through sys.exit,      *)
(* without calling cancel or cancel_all.                                   *)

LastLine == stderr[Len(stderr)]

C7_ErrorsCaughtExceptCancelFlags ==
    /\ NonNumericOrder =>
          /\ Len(stderr) = 1
          /\ LastLine.prefix \in {"Error placing buy order", "Error placing sell order"}
          /\ stdout = <<>>
          /\ exit_status = 0
          /\ NoExchangeOperation
    /\ CancelFlagsError =>
          /\ Len(stderr) = 1
          /\ LastLine.prefix = "Error"
          /\ stdout = <<>>
          /\ exit_status = 1
          /\ NoExchangeOperation
    /\ (Exited /\ ~ConfigError /\ ~CancelFlagsError) => exit_status = 0
    /\ (Exited /\ ~ConfigError /\ calls # <<>> /\ ~calls[Len(calls)].ok) =>
          /\ stderr # <<>>
          /\ LastLine.prefix # "Warning: could not preflight balance/allowance"
          /\ stdout = <<>>

\* cancel --all --order-id X: status 1, nothing cancelled
C7_Witness ==
    /\ CancelFlagsError
    /\ argv.all
    /\ exit_status = 1
    /\ Said("Error", "use either --all or --order-id, not both.")
    /\ NoExchangeOperation

----------------------------------------------------------------------------
(* C8: an authenticated command run with POLYMARKET_KEY absent, or with    *)
(* POLYMARKET_SIGNER set and different (ignoring case) from the key's      *)
(* address, ends with a non-zero exit status before any order-book fetch,  *)
(* balance query, order creation, order submission or cancellation;        *)
(* markets, orderbook and quote run without the key.                       *)

SameIgnoringCase(a, b) ==
    /\ Len(a) = Len(b)
    /\ \A i \in DOMAIN a :
          \/ a[i] = b[i]
          \/ {a[i], b[i]} \in {{"a", "A"}, {"b", "B"}}

KeyAbsent == environ.key = ""

SignerDiffers ==
    environ.signer # <<>> /\ ~SameIgnoringCase(environ.signer, KeyAddress)

TradingOps ==
    {"get_order_book", "get_balance_allowance", "update_balance_allowance",
     "create_order", "post_order", "cancel", "cancel_all"}

C8_ConfigErrorsAbortFirst ==
    /\ (Exited /\ argv.command \in Authenticated /\ (KeyAbsent \/ SignerDiffers)) =>
          /\ exit_status # 0
          /\ stderr # <<>>
          /\ stdout = <<>>
          /\ \A op \in TradingOps : ~Called(op)
    /\ (Exited /\ argv.command \in {"markets", "orderbook", "quote"}) =>
          /\ ~ConfigError
          /\ exit_status = 0
          /\ calls # <<>>

\* buy-max with a key and a POLYMARKET_SIGNER that is another address
C8_Witness ==
    /\ Running("buy-max")
    /\ ~KeyAbsent
    /\ SignerDiffers
    /\ exit_status = 1
    /\ Said("Error", "POLYMARKET_SIGNER does not match POLYMARKET_KEY-derived address.")

----------------------------------------------------------------------------
(* C9: diagnose --onchain looks up the keys of the off-chain allowances    *)
(* mapping, or the exchange address alone when the mapping is empty or     *)
(* missing; each of them gets exactly one lookup and one entry of          *)
(* onchain_allowances (the allowance or an error), and the report is       *)
(* printed whichever lookups fail.                                         *)

Keys(items) == [i \in DOMAIN items |-> items[i].k]

IsLookup(c) == c.op = "eth_call"

C9_OnchainPerSpender ==
    (Running("diagnose") /\ argv.onchain /\ Returned("get_balance_allowance")) =>
        LET bal == calls[IndexOf("get_balance_allowance")].arg
            expected == IF bal.allowances = <<>> THEN <<EXCHANGE>>
                        ELSE Keys(bal.allowances)
            lookups == SelectSeq(calls, IsLookup)
        IN  /\ stdout # <<>>
            /\ exit_status = 0
            /\ stdout[1].has_onchain
            /\ Keys(stdout[1].onchain_allowances) = expected
            /\ [i \in DOMAIN lookups |-> lookups[i].arg] = expected
            /\ \A i \in DOMAIN stdout[1].onchain_allowances :
                  stdout[1].onchain_allowances[i].v \in 0..MaxAllow

\* two spenders, the first lookup failed, the second returned, report printed
C9_Witness ==
    /\ Running("diagnose")
    /\ argv.onchain
    /\ stdout # <<>>
    /\ Len(stdout[1].onchain_allowances) = 2
    /\ ~stdout[1].onchain_allowances[1].ok
    /\ stdout[1].onchain_allowances[2].ok

----------------------------------------------------------------------------
(* C10: when diagnose lists recommendations, funding is listed iff the     *)
(* reported balance is <= 0, approval iff the maximum off-chain allowance  *)
(* is <= 0 (empty or missing mapping: 0), refresh iff on-chain data was    *)
(* fetched and some on-chain allowance is a positive integer while the     *)
(* off-chain maximum is <= 0; each recommendation has its one step at the  *)
(* same position of next_steps.                                            *)

Listed(x, seq) == \E i \in DOMAIN seq : seq[i] = x

StepFor(rec) ==
    IF rec = FUND THEN FUND_STEP
    ELSE IF rec = APPROVE THEN APPROVE_STEP
    ELSE REFRESH_STEP

C10_Recommendations ==
    (Running("diagnose") /\ argv.fix /\ stdout # <<>>) =>
        LET report == stdout[1]
            bal == report.balance_allowance
            recs == report.recommendations
            steps == report.next_steps
            lowBalance == ~bal.has_balance \/ bal.balance <= 0
            noAllowance == \A i \in DOMAIN bal.allowances : bal.allowances[i].v <= 0
            stale == /\ report.has_onchain
                     /\ noAllowance
                     /\ \E i \in DOMAIN report.onchain_allowances :
                           /\ report.onchain_allowances[i].ok
                           /\ report.onchain_allowances[i].v > 0
        IN  /\ report.has_recommendations
            /\ Listed(FUND, recs) <=> lowBalance
            /\ Listed(APPROVE, recs) <=> noAllowance
            /\ Listed(REFRESH, recs) <=> stale
            /\ \A i \in DOMAIN recs : recs[i] \in {FUND, APPROVE, REFRESH}
            /\ \A i, j \in DOMAIN recs : i # j => recs[i] # recs[j]
            /\ Len(steps) = Len(recs)
            /\ \A i \in DOMAIN recs : steps[i] = StepFor(recs[i])

\* balance 0, no off-chain allowance, a positive on-chain one: all three
C10_Witness ==
    /\ Running("diagnose")
    /\ argv.fix
    /\ stdout # <<>>
    /\ stdout[1].recommendations = <<FUND, APPROVE, REFRESH>>
    /\ stdout[1].next_steps = <<FUND_STEP, APPROVE_STEP, REFRESH_STEP>>

----------------------------------------------------------------------------
(* C11: in diagnose --fix the recommendations are derived from the         *)
(* balance/allowance snapshot fetched before the refresh attempt           *)
(* (update_balance_allowance), so that the refresh succeeding, failing or  *)
(* changing the exchange's view does not change which are listed.          *)

\* the recommendations the three rules give for a view and the on-chain
\* part of a report
RecsFor(view, report) ==
    LET lowBalance == ~view.has_balance \/ view.balance <= 0
        noAllowance == \A i \in DOMAIN view.allowances : view.allowances[i].v <= 0
        stale == /\ report.has_onchain
                 /\ noAllowance
                 /\ \E i \in DOMAIN report.onchain_allowances :
                       /\ report.onchain_allowances[i].ok
                       /\ report.onchain_allowances[i].v > 0
    IN  (IF lowBalance THEN {FUND} ELSE {})
        \cup (IF noAllowance THEN {APPROVE} ELSE {})
        \cup (IF stale THEN {REFRESH} ELSE {})

ListedIn(report) ==
    {report.recommendations[i] : i \in DOMAIN report.recommendations}

\* a step of diagnose --fix that prints its report
FixReported == pc = "start" /\ argv.command = "diagnose" /\ argv.fix /\ stdout' # <<>>

\* ledger is the exchange's view before the step, ledger' after it
C11_RecsFromPreRefreshView ==
    [][FixReported => ListedIn(stdout'[1]) = RecsFor(ledger, stdout'[1])]_vars

(* C11 as amended: in diagnose --fix the refresh is attempted first and    *)
(* the snapshot is fetched after it; the recommendations are derived from  *)
(* that post-refresh snapshot, the one the report shows.  A refresh that   *)
(* raises is swallowed and leaves the view, hence the recommendations, as  *)
(* they were; a refresh that changes the view changes them with it.        *)

RefreshRaised(log) ==
    \E i \in DOMAIN log : log[i].op = "update_balance_allowance" /\ ~log[i].ok

RefreshBeforeSnapshot(log) ==
    \E i, j \in DOMAIN log :
        /\ i < j
        /\ log[i].op = "update_balance_allowance"
        /\ log[j].op = "get_balance_allowance"

C11_RecsFromPostRefreshView ==
    [][FixReported =>
          /\ RefreshBeforeSnapshot(calls')
          /\ stdout'[1].balance_allowance = ledger'
          /\ ListedIn(stdout'[1]) = RecsFor(ledger', stdout'[1])
          /\ RefreshRaised(calls') =>
                /\ ledger' = ledger
                /\ ListedIn(stdout'[1]) = RecsFor(ledger, stdout'[1])]_vars

\* a --fix run whose refresh returned and whose report, of the view
\* after it, lists the funding recommendation alone
C11_Witness ==
    /\ Running("diagnose")
    /\ argv.fix
    /\ Returned("update_balance_allowance")
    /\ stdout # <<>>
    /\ stdout[1].balance_allowance = ledger
    /\ stdout[1].recommendations = <<FUND>>

----------------------------------------------------------------------------
(* C12: buy-max with a positive effective price and min_order_size > 0.    *)
(* As first stated: whenever the raw size max_usd / price, as the handler  *)
(* computes it, is below min_order_size the command fails with "max_usd    *)
(* too low for min order size" and creates no order, the override that     *)
(* raises the size to min_order_size is never taken, and every order       *)
(* created at a positive price has size round(max_usd / price, 6), which   *)
(* is >= min_order_size.                                                   *)

\* buy-max divided a positive budget by a positive price against a book
\* with a minimum order size
PositiveMin ==
    /\ Sizable
    /\ EffectivePrice > 0
    /\ FetchedBook.min_order_size > 0

TooLowError == BuyMaxError("max_usd too low for min order size.")

\* the order created at a positive price has size round(max_usd / price, 6)
\* and that is at least the book's minimum order size
RoundedQuotientAtLeastMin ==
    (Sizable /\ EffectivePrice > 0 /\ Called("create_order")) =>
        LET order == calls[IndexOf("create_order")].arg
        IN  /\ order.price = EffectivePrice
            /\ NearestToBudget(order.size)
            /\ order.size >= FetchedBook.min_order_size * (10 ^ 6)

C12_OverrideNeverTaken ==
    /\ PositiveMin =>
          /\ ~Overridden
          /\ BelowMinSize =>
                /\ TooLowError
                /\ ~Called("create_order")
    /\ RoundedQuotientAtLeastMin

(* C12, as the code has it: a budget below min_order_size * price fails    *)
(* with the too-low error and creates no order, a budget above it never    *)
(* gets that error and is never overridden.  A budget of exactly           *)
(* min_order_size * price is sized by the rounding of the floats: the      *)
(* quotient not below min_order_size goes on as it is; the quotient        *)
(* rounded below it takes the override when the product min_order_size *   *)
(* price is within max_usd, and fails with the too-low error when the      *)
(* product is rounded above max_usd.  Every order created at a positive    *)
(* price, overridden or not, has size round(max_usd / price, 6) >=         *)
(* min_order_size, the overridden ones min_order_size exactly.             *)
C12_OverrideOnlyOnRoundedTie ==
    /\ PositiveMin =>
          /\ argv.max_usd.v < MinCost =>
                /\ TooLowError
                /\ ~Called("create_order")
                /\ stdout = <<>>
          /\ argv.max_usd.v > MinCost => ~TooLowError
          /\ TooLowError <=> (BelowMinSize /\ ~WithinBudget)
          /\ Overridden =>
                /\ Tie
                /\ rounding.quot < 0
                /\ ~TooLowError
                /\ Called("create_order") =>
                      calls[IndexOf("create_order")].arg.size
                          = FetchedBook.min_order_size * (10 ^ 6)
    /\ RoundedQuotientAtLeastMin

\* a budget of exactly min_order_size * price whose quotient came out below
\* min_order_size: the override was taken and the order posted
C12_Witness ==
    /\ PositiveMin
    /\ Tie
    /\ rounding.quot < 0
    /\ Overridden
    /\ ~TooLowError
    /\ Returned("post_order")
    /\ calls[IndexOf("create_order")].arg.size = FetchedBook.min_order_size * (10 ^ 6)

====
